---- MODULE Spec2Model ----
(* Memory management core of memory.py: Program, StaticLoader,            *)
(* DynamicLoader, Memory (buffer + class-level partition list) and         *)
(* Pagination.  Buffers are sequences of bytes; Python's 0-based address a *)
(* is element a+1 of the sequence.                                         *)
EXTENDS Integers, Sequences, FiniteSets, TLC

VARIABLES mems, partitions, prog, last

vars == <<mems, partitions, prog, last>>

(* ---------------- bounds of the model ---------------- *)

\* largest capacity a Memory is constructed with
MaxSize == 1
\* a load that would make a buffer longer than this is not explored
MaxLen == 2
\* the partition list is explored up to this many records
MaxParts == 1

\* longest target buffer and largest Program capacity a single load is
\* explored on
LoadMaxLen == 3
LoadMaxProg == 3

\* largest Memory size a Pagination is explored on
PageMaxSize == 3

\* default arguments of Memory(size) and Pagination(memory, size)
DefaultMemorySize == 512
DefaultPageSize == 128

\* Memory instances, numbered in order of construction
MemIds == {1, 2}
\* capacities handed to Memory (negative and zero included)
Capacities == -1..MaxSize
\* capacities handed to Program: up to one byte more than any Memory holds
ProgCapacities == -1..(MaxSize + 1)
\* addresses handed to read / write
Addresses == -1..MaxLen
\* range bounds handed to partition
RangeBounds == -1..(MaxSize + 1)
\* values handed to write / add_instruction: both ends of the byte range
\* and their outside neighbours
ByteInputs == {-1, 0, 255, 256}
\* page sizes handed to Pagination
PageSizes == -1..(MaxSize + 1)

(* ---------------- Python exceptions ---------------- *)

NoError == "none"
IndexError == "IndexError"
ValueError == "ValueError"
MemoryError == "MemoryError"
ZeroDivisionError == "ZeroDivisionError"

\* the spec's error kinds, as the code raises them
OutOfBounds == IndexError
InvalidByteValue == ValueError
MemoryFull == MemoryError

(* ---------------- pure helpers ---------------- *)

Min(a, b) == IF a < b THEN a ELSE b
Max(a, b) == IF a > b THEN a ELSE b

\* bytearray(n) for n >= 0: n zero bytes
Zeros(n) == [i \in 1..n |-> 0]

\* buf[lo:hi] for 0 <= lo: Python clamps both indices to len(buf)
PySlice(buf, lo, hi) ==
    LET n == Len(buf)
        l == Min(lo, n)
        h == Max(l, Min(hi, n))
    IN  SubSeq(buf, l + 1, h)

\* buf[lo:hi] = src for 0 <= lo: the clamped slice is replaced by src, so
\* the buffer grows when src is longer than the slice
PySliceAssign(buf, lo, hi, src) ==
    LET n == Len(buf)
        l == Min(lo, n)
        h == Max(l, Min(hi, n))
    IN  SubSeq(buf, 1, l) \o src \o SubSeq(buf, h + 1, n)

\* buf[a] = v for a valid index a
PySetItem(buf, a, v) == [buf EXCEPT ![a + 1] = v]

\* address of the first zero byte, or -1 when there is none
FirstZero(buf) ==
    IF \E i \in 1..Len(buf) : buf[i] = 0
    THEN (CHOOSE i \in 1..Len(buf) :
             buf[i] = 0 /\ \A j \in 1..(i - 1) : buf[j] # 0) - 1
    ELSE -1

\* the values a bytearray element accepts
IsByte(v) == 0 <= v /\ v < 256

(* ---------------- loaders ---------------- *)

\* load that copies first and only then raises when the copy ran past the end
StaticLoadCheckAfter(instructions, memory) ==
    IF FirstZero(memory) >= 0
    THEN LET copied == PySliceAssign(memory, 0, Len(instructions), instructions)
         IN  [err |-> IF Len(copied) > Len(memory) THEN MemoryError ELSE NoError,
              memory |-> copied]
    ELSE [err |-> MemoryError, memory |-> memory]

\* static load that copies to the first zero address instead of address 0
StaticLoadAtFirstZero(instructions, memory) ==
    LET i == FirstZero(memory) IN
    IF i >= 0
    THEN [err |-> NoError,
          memory |-> PySliceAssign(memory, i, i + Len(instructions), instructions)]
    ELSE [err |-> MemoryError, memory |-> memory]

\* StaticLoader.load: result of the call on the buffer `memory`
StaticLoad(instructions, memory) ==
    IF FirstZero(memory) >= 0
    THEN [err |-> NoError,
          memory |-> PySliceAssign(memory, 0, Len(instructions), instructions)]
    ELSE [err |-> MemoryError, memory |-> memory]

\* dynamic load that copies to address 0 once it has found a zero byte
DynamicLoadAtZero(instructions, memory) ==
    IF FirstZero(memory) >= 0
    THEN [err |-> NoError,
          memory |-> PySliceAssign(memory, 0, Len(instructions), instructions)]
    ELSE [err |-> MemoryError, memory |-> memory]

\* dynamic load that returns at once for a program of length zero
DynamicLoadEmptyOk(instructions, memory) ==
    LET i == FirstZero(memory) IN
    IF i >= 0 \/ Len(instructions) = 0
    THEN [err |-> NoError,
          memory |-> IF i >= 0
                     THEN PySliceAssign(memory, i, i + Len(instructions), instructions)
                     ELSE memory]
    ELSE [err |-> MemoryError, memory |-> memory]

\* dynamic load that copies only the bytes that fit in the buffer
DynamicLoadTruncating(instructions, memory) ==
    LET i == FirstZero(memory) IN
    IF i >= 0
    THEN [err |-> NoError,
          memory |-> [k \in 1..Len(memory) |->
                         IF i < k /\ k <= i + Len(instructions)
                         THEN instructions[k - i] ELSE memory[k]]]
    ELSE [err |-> MemoryError, memory |-> memory]

\* DynamicLoader.load: result of the call on the buffer `memory`
DynamicLoad(instructions, memory) ==
    LET i == FirstZero(memory) IN
    IF i >= 0
    THEN [err |-> NoError,
          memory |-> PySliceAssign(memory, i, i + Len(instructions), instructions)]
    ELSE [err |-> MemoryError, memory |-> memory]

Loaders == {"Static", "Dynamic"}

\* loader.load(program, memory), dispatched on the loader's class
Load(loader, instructions, memory) ==
    IF loader = "Static" THEN StaticLoad(instructions, memory)
    ELSE DynamicLoad(instructions, memory)

(* ---------------- state ---------------- *)

\* mems[m]: the Memory instance m (size, memory), once constructed
\* partitions: the class attribute Memory.partitions
\* prog: the Program (size, instructions), once constructed
\* last: the last call, the exception it raised and the value it returned
NoMem == [live |-> FALSE, size |-> 0, memory |-> <<>>]
NoProg == [live |-> FALSE, size |-> 0, instructions |-> <<>>]

Call(op, err, ret) == [op |-> op, err |-> err, ret |-> ret]

\* self.partitions: no method ever assigns the attribute on an instance, so
\* the lookup on any instance resolves to the class attribute
PartitionsOf(m) == partitions

Init ==
    /\ mems = [m \in MemIds |-> NoMem]
    /\ partitions = <<>>
    /\ prog = NoProg
    /\ last = Call("start", NoError, 0)

(* ---------------- Program ---------------- *)

\* result of Program(size): bytearray(size) raises on a negative count
ProgramNew(size) ==
    IF size < 0
    THEN [err |-> ValueError, prog |-> NoProg]
    ELSE [err |-> NoError,
          prog |-> [live |-> TRUE, size |-> size, instructions |-> Zeros(size)]]

ProgramInit(size) ==
    /\ ~prog.live
    /\ LET r == ProgramNew(size) IN
       /\ prog' = r.prog
       /\ last' = Call("Program", r.err, 0)
    /\ UNCHANGED <<mems, partitions>>

\* add_instruction that scans the slots from the highest address down
AddInstructionResultFromEnd(instructions, size, instruction) ==
    LET free == {i \in 1..size : instructions[i] = 0} IN
    IF free = {} THEN [err |-> MemoryError, instructions |-> instructions, ret |-> 0]
    ELSE IF ~IsByte(instruction)
         THEN [err |-> ValueError, instructions |-> instructions, ret |-> 0]
         ELSE LET i == (CHOOSE j \in free : \A k \in free : k <= j) - 1
              IN  [err |-> NoError,
                   instructions |-> PySetItem(instructions, i, instruction),
                   ret |-> i]

\* result of program.add_instruction(instruction)
AddInstructionResult(instructions, size, instruction) ==
    LET i == FirstZero(SubSeq(instructions, 1, size)) IN
    IF i < 0 THEN [err |-> MemoryError, instructions |-> instructions, ret |-> 0]
    ELSE IF ~IsByte(instruction)
         THEN [err |-> ValueError, instructions |-> instructions, ret |-> 0]
         ELSE [err |-> NoError,
               instructions |-> PySetItem(instructions, i, instruction),
               ret |-> i]

AddInstruction(instruction) ==
    /\ prog.live
    /\ LET r == AddInstructionResult(prog.instructions, prog.size, instruction) IN
       /\ prog' = [prog EXCEPT !.instructions = r.instructions]
       /\ last' = Call("add_instruction", r.err, r.ret)
    /\ UNCHANGED <<mems, partitions>>

(* ---------------- Memory ---------------- *)

\* result of Memory(size): bytearray(size) raises on a negative count
MemoryNew(size) ==
    IF size < 0
    THEN [err |-> ValueError, mem |-> NoMem]
    ELSE [err |-> NoError,
          mem |-> [live |-> TRUE, size |-> size, memory |-> Zeros(size)]]

MemoryInit(m, size) ==
    /\ ~mems[m].live
    /\ \A k \in MemIds : k < m => mems[k].live
    /\ LET r == MemoryNew(size) IN
       /\ mems' = [mems EXCEPT ![m] = r.mem]
       /\ last' = Call("Memory", r.err, 0)
    /\ UNCHANGED <<partitions, prog>>

\* reset that zeroes the current buffer in place
ResetResultInPlace(mem) == [mem EXCEPT !.memory = Zeros(Len(mem.memory))]

\* the instance after memory.reset(): a fresh buffer of self.size zeros
ResetResult(mem) == [mem EXCEPT !.memory = Zeros(mem.size)]

Reset(m) ==
    /\ mems[m].live
    /\ mems' = [mems EXCEPT ![m] = ResetResult(mems[m])]
    /\ last' = Call("reset", NoError, 0)
    /\ UNCHANGED <<partitions, prog>>

\* memory.add(program, loader)
AddCall(m, loader) ==
    /\ mems[m].live
    /\ prog.live
    /\ LET r == Load(loader, prog.instructions, mems[m].memory) IN
       /\ mems' = [mems EXCEPT ![m].memory = r.memory]
       /\ last' = Call("add", r.err, 0)
    /\ UNCHANGED <<partitions, prog>>

\* memory.add(program, loader), explored while the buffer stays within MaxLen
Add(m, loader) ==
    /\ mems[m].live
    /\ prog.live
    /\ Len(Load(loader, prog.instructions, mems[m].memory).memory) <= MaxLen
    /\ AddCall(m, loader)

\* read that checks the address against the buffer's current length
ReadResultByLen(memory, size, address) ==
    IF 0 <= address /\ address < Len(memory)
    THEN [err |-> NoError, ret |-> memory[address + 1]]
    ELSE [err |-> IndexError, ret |-> 0]

\* result of memory.read(address)
ReadResult(memory, size, address) ==
    IF 0 <= address /\ address < size
    THEN [err |-> NoError, ret |-> memory[address + 1]]
    ELSE [err |-> IndexError, ret |-> 0]

Read(m, address) ==
    /\ mems[m].live
    /\ LET r == ReadResult(mems[m].memory, mems[m].size, address) IN
       last' = Call("read", r.err, r.ret)
    /\ UNCHANGED <<mems, partitions, prog>>

\* write whose value check admits 256
WriteResultUpTo256(memory, size, address, value) ==
    IF 0 <= address /\ address < size
    THEN IF 0 <= value /\ value <= 256
         THEN [err |-> NoError, memory |-> PySetItem(memory, address, value)]
         ELSE [err |-> ValueError, memory |-> memory]
    ELSE [err |-> IndexError, memory |-> memory]

\* write whose value check rejects 255
WriteResultBelow255(memory, size, address, value) ==
    IF 0 <= address /\ address < size
    THEN IF 0 <= value /\ value < 255
         THEN [err |-> NoError, memory |-> PySetItem(memory, address, value)]
         ELSE [err |-> ValueError, memory |-> memory]
    ELSE [err |-> IndexError, memory |-> memory]

\* result of memory.write(address, value)
WriteResult(memory, size, address, value) ==
    IF 0 <= address /\ address < size
    THEN IF IsByte(value)
         THEN [err |-> NoError, memory |-> PySetItem(memory, address, value)]
         ELSE [err |-> ValueError, memory |-> memory]
    ELSE [err |-> IndexError, memory |-> memory]

Write(m, address, value) ==
    /\ mems[m].live
    /\ LET r == WriteResult(mems[m].memory, mems[m].size, address, value) IN
       /\ mems' = [mems EXCEPT ![m].memory = r.memory]
       /\ last' = Call("write", r.err, 0)
    /\ UNCHANGED <<partitions, prog>>

\* record whose data is taken one address too far
PartitionRecordShifted(memory, start, end) ==
    [start |-> start, end |-> end, data |-> PySlice(memory, start + 1, end + 1)]

\* the record memory.partition(start, end) appends
PartitionRecord(memory, start, end) ==
    [start |-> start, end |-> end, data |-> PySlice(memory, start, end)]

\* partition that accepts an empty range (start == end)
PartitionResultAllowEmpty(parts, memory, size, start, end) ==
    IF 0 <= start /\ start <= end /\ end <= size
    THEN [err |-> NoError, parts |-> Append(parts, PartitionRecord(memory, start, end))]
    ELSE [err |-> IndexError, parts |-> parts]

\* result of memory.partition(start, end) on the partition list `parts`
PartitionResult(parts, memory, size, start, end) ==
    IF 0 <= start /\ start < end /\ end <= size
    THEN [err |-> NoError, parts |-> Append(parts, PartitionRecord(memory, start, end))]
    ELSE [err |-> IndexError, parts |-> parts]

Partition(m, start, end) ==
    /\ mems[m].live
    /\ LET r == PartitionResult(PartitionsOf(m), mems[m].memory, mems[m].size, start, end) IN
       /\ Len(r.parts) <= MaxParts
       /\ partitions' = r.parts
       /\ last' = Call("partition", r.err, 0)
    /\ UNCHANGED <<mems, prog>>

(* ---------------- Pagination ---------------- *)

\* a // b for b # 0, rounding towards minus infinity
PyFloorDiv(a, b) ==
    IF b > 0 THEN a \div b ELSE -(((a - b) - 1) \div (-b))

\* range(0, stop, step) for step # 0 and stop >= 0, in ascending order
PyRange(stop, step) ==
    IF step < 0 THEN <<>>
    ELSE [k \in 1..((stop + step - 1) \div step) |-> (k - 1) * step]

\* the loop of Pagination.__init__ over the strides still to visit: it
\* stops at the first partition call that raises
RECURSIVE PaginationLoop(_, _, _, _, _)
PaginationLoop(parts, memory, size, strides, page_size) ==
    IF strides = <<>> THEN [err |-> NoError, parts |-> parts]
    ELSE LET i == Head(strides)
             r == PartitionResult(parts, memory, size, i, Min(i + page_size, size))
         IN  IF r.err # NoError THEN r
             ELSE PaginationLoop(r.parts, memory, size, Tail(strides), page_size)

\* pagination that steps each page's end by the page size argument
PaginationResultByPageSize(parts, memory, msize, size) ==
    IF size = 0 THEN [err |-> ZeroDivisionError, parts |-> parts, ret |-> 0]
    ELSE LET page_size == PyFloorDiv(msize, size)
             r == PaginationLoop(parts, memory, msize, PyRange(msize, size), size)
         IN  [err |-> r.err, parts |-> r.parts, ret |-> page_size]

\* result of Pagination(memory, size) on the partition list `parts`;
\* ret is the object's page_size attribute (memory.size // size)
PaginationResult(parts, memory, msize, size) ==
    IF size = 0 THEN [err |-> ZeroDivisionError, parts |-> parts, ret |-> 0]
    ELSE LET page_size == PyFloorDiv(msize, size)
             r == PaginationLoop(parts, memory, msize, PyRange(msize, size), page_size)
         IN  [err |-> r.err, parts |-> r.parts, ret |-> page_size]

\* Pagination(memory, size) on the instance m
PaginationCall(m, size) ==
    /\ LET r == PaginationResult(PartitionsOf(m), mems[m].memory, mems[m].size, size) IN
       /\ partitions' = r.parts
       /\ last' = Call("Pagination", r.err, r.ret)
    /\ UNCHANGED <<mems, prog>>

PaginationInit(m, size) ==
    /\ mems[m].live
    /\ Len(PaginationResult(PartitionsOf(m), mems[m].memory, mems[m].size, size).parts)
           <= MaxParts
    /\ PaginationCall(m, size)

(* ---------------- specifications ---------------- *)

\* one Memory instance and one Program, every operation
Next ==
    \/ \E size \in ProgCapacities : ProgramInit(size)
    \/ \E v \in ByteInputs : AddInstruction(v)
    \/ \E size \in Capacities : MemoryInit(1, size)
    \/ Reset(1)
    \/ \E loader \in Loaders : Add(1, loader)
    \/ \E a \in Addresses : Read(1, a)
    \/ \E a \in Addresses, v \in ByteInputs : Write(1, a, v)
    \/ \E s \in RangeBounds, e \in RangeBounds : Partition(1, s, e)
    \/ \E size \in PageSizes : PaginationInit(1, size)

Spec == Init /\ [][Next]_vars

\* several Memory instances side by side
NextInstances ==
    \/ \E m \in MemIds, size \in Capacities : MemoryInit(m, size)
    \/ \E m \in MemIds : Reset(m)
    \/ \E m \in MemIds, a \in Addresses, v \in ByteInputs : Write(m, a, v)
    \/ \E m \in MemIds, s \in RangeBounds, e \in RangeBounds : Partition(m, s, e)
    \/ \E m \in MemIds, size \in PageSizes : PaginationInit(m, size)

SpecInstances == Init /\ [][NextInstances]_vars

\* one load into a Memory holding any bytes, from a Program in any state
\* add_instruction can leave it in
BufferBytes == {0, 255}
InstructionBytes == {1, 2, 3}

\* the all-zero Memory of size 8 of the loader scenarios
ScenarioBuffer == <<0, 0, 0, 0, 0, 0, 0, 0>>

LoadBuffers ==
    UNION {[1..n -> BufferBytes] : n \in 0..LoadMaxLen} \cup {ScenarioBuffer}

\* add_instruction fills the lowest zero slot, so the occupied slots of a
\* Program are a prefix of its buffer
LoadPrograms ==
    {p \in UNION {[1..n -> InstructionBytes \cup {0}] : n \in 0..LoadMaxProg} :
        \A i \in 1..Len(p), j \in 1..Len(p) : (i < j /\ p[i] = 0) => p[j] = 0}

InitLoad ==
    /\ \E buf \in LoadBuffers :
          mems = [m \in MemIds |->
                    IF m = 1
                    THEN [live |-> TRUE, size |-> Len(buf), memory |-> buf]
                    ELSE NoMem]
    /\ \E p \in LoadPrograms :
          prog = [live |-> TRUE, size |-> Len(p), instructions |-> p]
    /\ partitions = <<>>
    /\ last = Call("start", NoError, 0)

LoadOnce(loader) ==
    /\ last.op = "start"
    /\ AddCall(1, loader)

NextLoad ==
    \/ LoadOnce("Static")
    \/ LoadOnce("Dynamic")

SpecLoad == InitLoad /\ [][NextLoad]_vars

\* Pagination views over a Memory of any small size holding any bytes, or
\* over a fresh Memory of the default size
PageBuffers ==
    UNION {[1..n -> BufferBytes] : n \in 0..PageMaxSize}
        \cup {Zeros(DefaultMemorySize)}
PageArgs == (-1..(PageMaxSize + 1)) \cup {DefaultPageSize}

InitPage ==
    /\ \E buf \in PageBuffers :
          mems = [m \in MemIds |->
                    IF m = 1
                    THEN [live |-> TRUE, size |-> Len(buf), memory |-> buf]
                    ELSE NoMem]
    /\ prog = NoProg
    /\ partitions = <<>>
    /\ last = Call("start", NoError, 0)

\* the loop is explored up to PageMaxSize + 1 strides, on a list that
\* holds at most PageMaxSize records
PaginationOnList(size) ==
    /\ Len(partitions) <= PageMaxSize
    /\ size # 0 => Len(PyRange(mems[1].size, size)) <= PageMaxSize + 1
    /\ PaginationCall(1, size)

NextPage == \E size \in PageArgs : PaginationOnList(size)

SpecPage == InitPage /\ [][NextPage]_vars

(* ---------------- properties ---------------- *)

\* address range and byte range of the specification
ValidAddress(m, a) == 0 <= a /\ a < mems[m].size
ValidByte(v) == 0 <= v /\ v <= 255
ValidRange(m, s, e) == 0 <= s /\ s < e /\ e <= mems[m].size

\* the insertion point of a loader in a buffer: address 0 for StaticLoader,
\* the first zero address for DynamicLoader (-1 when there is none)
InsertionPoint(loader, memory) ==
    IF loader = "Static" THEN 0 ELSE FirstZero(memory)

\* the program, placed at the insertion point, would extend past the end
Overflows(loader, instructions, memory) ==
    /\ InsertionPoint(loader, memory) >= 0
    /\ InsertionPoint(loader, memory) + Len(instructions) > Len(memory)

\* C1: in every reachable state the length of a Memory's backing buffer
\* equals its size.
C1_BufferLenIsSize ==
    \A m \in MemIds : mems[m].live => Len(mems[m].memory) = mems[m].size

\* C2: a load whose program would extend past the end of the buffer from its
\* insertion point fails with MemoryFull and writes no byte (no truncation,
\* no growth, no byte changed).
C2_OverflowFails ==
    [][\A m \in MemIds, ld \in Loaders :
          (Add(m, ld) /\ Overflows(ld, prog.instructions, mems[m].memory))
              => (last'.err = MemoryFull /\ mems' = mems)]_vars

\* C3: a successful partition call (direct or through Pagination) on one
\* Memory never changes the partition list observed on another Memory, and
\* a freshly created Memory has an empty partition list.
C3_OwnPartitionList ==
    [][/\ \A m \in MemIds :
            ((\/ \E s \in RangeBounds, e \in RangeBounds : Partition(m, s, e)
              \/ \E size \in PageSizes : PaginationInit(m, size))
             /\ last'.err = NoError)
                => \A o \in MemIds \ {m} :
                       mems[o].live => PartitionsOf(o)' = PartitionsOf(o)
       /\ \A m \in MemIds, size \in Capacities :
            (MemoryInit(m, size) /\ last'.err = NoError)
                => PartitionsOf(m)' = <<>>]_vars

FailingOps == {"add_instruction", "add", "read", "write", "partition", "Pagination"}

\* C4: a call of add_instruction, add, read, write, partition or Pagination
\* that fails leaves the program's instruction buffer, the memory buffer and
\* the partition list as they were before the call.
C4_FailureLeavesState ==
    [][(last'.op \in FailingOps /\ last'.err # NoError)
          => (prog' = prog /\ mems' = mems /\ partitions' = partitions)]_vars

\* a failed Pagination over a memory that holds a non-zero byte and already
\* has a partition record
C4_Witness ==
    /\ last.op = "Pagination"
    /\ last.err = IndexError
    /\ Len(partitions) > 0
    /\ \E k \in 1..Len(mems[1].memory) : mems[1].memory[k] # 0

\* C5: partition(s, e) with 0 <= s < e <= size appends exactly one record
\* {start: s, end: e, data: memory[s:e] at call time}, and write, add and
\* reset leave every existing record as it is.
C5_PartitionSnapshot ==
    [][/\ last'.op = "partition" =>
            \A m \in MemIds, s \in RangeBounds, e \in RangeBounds :
               (ValidRange(m, s, e) /\ Partition(m, s, e))
                   => /\ last'.err = NoError
                      /\ partitions' =
                           Append(partitions,
                                  [start |-> s, end |-> e,
                                   data |-> [k \in 1..(e - s) |-> mems[m].memory[s + k]]])
       /\ last'.op \in {"write", "add", "reset"} => partitions' = partitions]_vars

\* after a later write, add or reset, a record whose data no longer equals
\* the bytes of its range
C5_Witness ==
    /\ last.op \in {"write", "add", "reset"}
    /\ last.err = NoError
    /\ \E k \in 1..Len(partitions) :
          partitions[k].data #
              PySlice(mems[1].memory, partitions[k].start, partitions[k].end)

\* C6: partition(s, e) with s < 0, s >= e or e > size fails with OutOfBounds
\* and appends no record.
C6_InvalidRangeFails ==
    [][(/\ last'.op = "partition"
        /\ \E m \in MemIds, s \in RangeBounds, e \in RangeBounds :
              /\ s < 0 \/ s >= e \/ e > mems[m].size
              /\ Partition(m, s, e))
          => (last'.err = OutOfBounds /\ partitions' = partitions)]_vars

\* a rejected partition call on a memory of positive size
C6_Witness ==
    /\ last.op = "partition"
    /\ last.err = OutOfBounds
    /\ mems[1].size > 0

\* C7 as stated: write(a, v) with v outside [0,255] fails with
\* InvalidByteValue for every address a, valid or not, and leaves the buffer
\* unchanged.
C7_BadValueAnyAddress ==
    [][(/\ last'.op = "write"
        /\ \E m \in MemIds, a \in Addresses, v \in ByteInputs :
              ~ValidByte(v) /\ Write(m, a, v))
          => (last'.err = InvalidByteValue /\ mems' = mems)]_vars

\* C7 amended: write(a, v) with a valid address a and v outside [0,255] fails
\* with InvalidByteValue and leaves the buffer unchanged.
C7_BadValueValidAddress ==
    [][(/\ last'.op = "write"
        /\ \E m \in MemIds, a \in Addresses, v \in ByteInputs :
              ValidAddress(m, a) /\ ~ValidByte(v) /\ Write(m, a, v))
          => (last'.err = InvalidByteValue /\ mems' = mems)]_vars

\* a write rejected for its value, on a buffer holding a non-zero byte
C7_Witness ==
    /\ last.op = "write"
    /\ last.err = InvalidByteValue
    /\ \E k \in 1..Len(mems[1].memory) : mems[1].memory[k] # 0

\* C8: read(a) and write(a, v) with a < 0 or a >= size fail with OutOfBounds,
\* for every v, without changing the buffer.
C8_BadAddressFails ==
    [][(/\ last'.op \in {"read", "write"}
        /\ \E m \in MemIds, a \in Addresses :
              /\ ~ValidAddress(m, a)
              /\ Read(m, a) \/ \E v \in ByteInputs : Write(m, a, v))
          => (last'.err = OutOfBounds /\ mems' = mems)]_vars

\* a rejected read or write on a buffer that a load has made longer than size
C8_Witness ==
    /\ last.op \in {"read", "write"}
    /\ last.err = OutOfBounds
    /\ Len(mems[1].memory) > mems[1].size

\* C9: for a valid address a and v in [0,255], write(a, v) succeeds, read(a)
\* in the state it leaves returns v, and no other byte has changed.
C9_WriteThenRead ==
    [][last'.op = "write" =>
          \A m \in MemIds, a \in Addresses, v \in ByteInputs :
             (ValidAddress(m, a) /\ ValidByte(v) /\ Write(m, a, v))
                 => /\ last'.err = NoError
                    /\ ReadResult(mems'[m].memory, mems'[m].size, a)
                           = [err |-> NoError, ret |-> v]
                    /\ Len(mems'[m].memory) = Len(mems[m].memory)
                    /\ \A k \in 1..Len(mems[m].memory) :
                          k # a + 1 => mems'[m].memory[k] = mems[m].memory[k]
                    /\ \A o \in MemIds \ {m} : mems'[o] = mems[o]]_vars

\* a successful write of 255 next to another byte
C9_Witness ==
    /\ last.op = "write"
    /\ last.err = NoError
    /\ Len(mems[1].memory) > 1
    /\ \E k \in 1..Len(mems[1].memory) : mems[1].memory[k] = 255

\* C10: reset() leaves the buffer as exactly size zero bytes and leaves the
\* partition records (count, bounds, data) unchanged.
C10_ResetZeroes ==
    [][\A m \in MemIds :
          Reset(m)
              => /\ mems'[m].memory = [k \in 1..mems[m].size |-> 0]
                 /\ mems'[m].size = mems[m].size
                 /\ partitions' = partitions]_vars

\* a reset memory whose partition list still holds a non-zero snapshot
C10_Witness ==
    /\ last.op = "reset"
    /\ \E k \in 1..Len(partitions) :
          \E j \in 1..Len(partitions[k].data) : partitions[k].data[j] # 0

\* the spec's error kind of a full Program, as the code raises it
OutOfCapacity == MemoryError

\* the free (zero) slots of the program, as 1-based positions
FreeSlots == {i \in 1..Len(prog.instructions) : prog.instructions[i] = 0}

\* C11: add_instruction with a non-zero byte writes into and returns the
\* lowest-index slot holding 0, leaves every other slot alone and so uses up
\* exactly one free slot; with no free slot it fails with OutOfCapacity; the
\* address returned after a call that occupied a slot is strictly higher.
C11_AddInstructionFirstFree ==
    [][last'.op = "add_instruction" =>
          \A v \in ByteInputs :
             (v # 0 /\ ValidByte(v) /\ AddInstruction(v))
                 => IF FreeSlots = {}
                    THEN last'.err = OutOfCapacity /\ prog' = prog
                    ELSE LET i == CHOOSE j \in FreeSlots : \A k \in FreeSlots : j <= k
                         IN  /\ last'.err = NoError
                             /\ last'.ret = i - 1
                             /\ prog'.instructions[i] = v
                             /\ Len(prog'.instructions) = Len(prog.instructions)
                             /\ \A k \in 1..Len(prog.instructions) :
                                   k # i => prog'.instructions[k] = prog.instructions[k]
                             /\ FreeSlots' = FreeSlots \ {i}
                             /\ (/\ last.op = "add_instruction"
                                 /\ last.err = NoError
                                 /\ prog.instructions[last.ret + 1] # 0)
                                    => last'.ret > last.ret]_vars

\* a full Program of two slots has just refused one more instruction
C11_Witness ==
    /\ last.op = "add_instruction"
    /\ last.err = OutOfCapacity
    /\ prog.size >= 2
    /\ \A k \in 1..Len(prog.instructions) : prog.instructions[k] # 0

\* C12: DynamicLoader.load on a buffer whose first zero byte is at address i,
\* with i + len(instructions) <= len(buffer), makes buffer[i : i+len] the
\* program's instructions and leaves every other byte unchanged; [1,2,3]
\* loaded into eight zero bytes gives [1,2,3,0,0,0,0,0].
C12_DynamicPlacesAtFirstZero ==
    [][AddCall(1, "Dynamic") =>
          LET buf == mems[1].memory
              ins == prog.instructions
              i == FirstZero(buf)
          IN  /\ (i >= 0 /\ i + Len(ins) <= Len(buf))
                    => /\ last'.err = NoError
                       /\ Len(mems'[1].memory) = Len(buf)
                       /\ \A k \in 1..Len(buf) :
                             mems'[1].memory[k] =
                                 IF i < k /\ k <= i + Len(ins) THEN ins[k - i] ELSE buf[k]
              /\ (buf = ScenarioBuffer /\ ins = <<1, 2, 3>>)
                    => mems'[1].memory = <<1, 2, 3, 0, 0, 0, 0, 0>>]_vars

\* a one-byte program placed between two occupied bytes
C12_Witness ==
    /\ last.op = "add"
    /\ last.err = NoError
    /\ prog.instructions = <<1>>
    /\ mems[1].memory = <<255, 1, 255>>

C14_NoZeroFails ==
    [][\A loader \in Loaders :
          (AddCall(1, loader) /\ FirstZero(mems[1].memory) < 0)
              => /\ last'.err = MemoryFull
                 /\ mems' = mems]_vars

\* a program of length zero has been refused by a full two-byte buffer
C14_Witness ==
    /\ last.op = "add"
    /\ last.err = MemoryFull
    /\ prog.instructions = <<>>
    /\ mems[1].memory = <<255, 255>>

\* C19: a successful DynamicLoader.load never overwrites a byte of the
\* target buffer that was non-zero before the load, also when non-zero bytes
\* lie after the first zero byte.
C19_DynamicKeepsOccupied ==
    [][(AddCall(1, "Dynamic") /\ last'.err = NoError)
          => \A k \in 1..Len(mems[1].memory) :
                mems[1].memory[k] # 0
                    => /\ k <= Len(mems'[1].memory)
                       /\ mems'[1].memory[k] = mems[1].memory[k]]_vars

\* C20: when the byte at address 0 of the buffer is 0, StaticLoader.load and
\* DynamicLoader.load of the same program into the same buffer have the same
\* outcome (the same resulting buffer, or both fail), for every program
\* length, lengths beyond the buffer included.
C20_LoadersAgreeAtZero ==
    [][\A loader \in Loaders :
          (/\ AddCall(1, loader)
           /\ Len(mems[1].memory) > 0
           /\ mems[1].memory[1] = 0)
              => LET other == Load(CHOOSE l \in Loaders : l # loader,
                                   prog.instructions, mems[1].memory)
                 IN  /\ last'.err = other.err
                     /\ mems'[1].memory = other.memory]_vars

\* a load into a buffer whose byte at address 0 was 0 has grown the buffer
\* past the memory's size
C20_Witness ==
    /\ last.op = "add"
    /\ last.err = NoError
    /\ mems[1].size = 1
    /\ mems[1].memory = <<1, 2, 3>>

\* C17: creating a Program or a Memory with a capacity <= 0 fails and yields
\* no usable object; creation with a capacity > 0 succeeds with every slot 0.
C17_NonPositiveCapacityFails ==
    [][/\ (last'.op = "Program" /\ \E size \in ProgCapacities :
              size <= 0 /\ ProgramInit(size))
           => (last'.err # NoError /\ ~prog'.live)
       /\ (last'.op = "Memory" /\ \E m \in MemIds, size \in Capacities :
              size <= 0 /\ MemoryInit(m, size))
           => (last'.err # NoError /\ mems' = mems)]_vars

\* C18: in every reachable state, every record in the partition list of
\* every Memory instance satisfies 0 <= start < end <= that Memory's size
\* and len(data) = end - start, whatever the number and sizes of the
\* instances and the order of the calls.
C18_RecordsWithinOwner ==
    \A m \in MemIds :
        mems[m].live =>
            \A k \in 1..Len(PartitionsOf(m)) :
                LET rec == PartitionsOf(m)[k] IN
                /\ 0 <= rec.start
                /\ rec.start < rec.end
                /\ rec.end <= mems[m].size
                /\ Len(rec.data) = rec.end - rec.start

\* C15: constructing a Pagination over a Memory of size S > 0 with page size
\* P > 0 appends exactly page_count = S // P records to the memory's
\* partition list, also when P does not divide S and when P > S.
C15_OneRecordPerPage ==
    [][\A P \in PageArgs :
          (P > 0 /\ mems[1].size > 0 /\ PaginationOnList(P))
              => Len(PartitionsOf(1)') - Len(PartitionsOf(1))
                     = PyFloorDiv(mems[1].size, P)]_vars

\* C16: every record appended by constructing a Pagination(memory,
\* page_size) has as start the next multiple i of page_size, from 0 upwards
\* with 0 <= i < memory.size, and as end min(i + page_count, memory.size)
\* where page_count = memory.size // page_size; for size 512 and page_size
\* 128 the first record is start 0, end 4.
C16_RecordPerStride ==
    [][\A P \in PageArgs :
          (P > 0 /\ PaginationOnList(P))
              => LET S == mems[1].size
                     old == Len(PartitionsOf(1))
                     new == PartitionsOf(1)'
                 IN  /\ Len(new) >= old
                     /\ SubSeq(new, 1, old) = PartitionsOf(1)
                     /\ \A k \in 1..(Len(new) - old) :
                           LET i == (k - 1) * P IN
                           /\ i < S
                           /\ new[old + k].start = i
                           /\ new[old + k].end = Min(i + PyFloorDiv(S, P), S)
                     /\ (S = DefaultMemorySize /\ P = DefaultPageSize)
                           => /\ Len(new) = old + 4
                              /\ new[old + 1].start = 0
                              /\ new[old + 1].end = 4]_vars

\* a Pagination with page size 128 over a fresh Memory of size 512 has
\* registered its four records, the first one ending at address 4
C16_Witness ==
    /\ last.op = "Pagination"
    /\ last.err = NoError
    /\ mems[1].size = DefaultMemorySize
    /\ Len(partitions) = 4
    /\ partitions[1].end = 4
    /\ partitions[4].start = 3 * DefaultPageSize

====
